---------------------------- MODULE Spec2Model ----------------------------
(***************************************************************************)
(* Model of the ai-blockchain-analyzer service: the POST /analyze_tx       *)
(* handler (src/src/routes.rs), the transaction fetcher                    *)
(* (src/src/services/blockchain.rs) and the transaction analyzer           *)
(* (src/src/services/ai.rs).                                               *)
(*                                                                         *)
(* Rust strings are TLA+ strings (TLC evaluates \o, Len and SubSeq on      *)
(* them), Option<T> is a sequence of length 0 or 1, Result<T, E> is a      *)
(* record [ok, val, err] and serde_json::Value is a tagged record.         *)
(*                                                                         *)
(* Two specifications:                                                     *)
(*   Spec         the server: MaxRequests in-flight requests, each running *)
(*                analyze_tx, interleaved at the handler's two await       *)
(*                points;                                                  *)
(*   SpecAnalyze  analyze_transaction as a pure function, called           *)
(*                repeatedly on records drawn from a bounded set of JSON   *)
(*                values (well formed and malformed).                      *)
(***************************************************************************)
EXTENDS Integers, Sequences, FiniteSets, TLC

VARIABLES
    pc,             \* Spec: request -> position of its analyze_tx future
    payload,        \* Spec: request -> Option<AnalyzeTxRequest>
    fetch_result,   \* Spec: request -> Option<Result<Value, BlockchainError>>
    tx_details,     \* Spec: request -> Option<Value>, the handler's local
    analyzer_calls, \* Spec: request -> number of analyze_transaction calls
    response,       \* Spec: request -> Option<Result<AnalyzeTxResponse, (StatusCode, String)>>
    a_pc,           \* SpecAnalyze: "ready" | "done"
    a_in,           \* SpecAnalyze: arguments of the current call
    a_out,          \* SpecAnalyze: Option<Result<AnalyzeTxResponse, AiError>>
    a_prev          \* SpecAnalyze: Option<summary of the previous call>

server_vars == <<pc, payload, fetch_result, tx_details, analyzer_calls, response>>
analyze_vars == <<a_pc, a_in, a_out, a_prev>>
vars == <<server_vars, analyze_vars>>

(***************************************************************************)
(* Bounds of the model.                                                    *)
(***************************************************************************)
MaxRequests == 2
MaxLogs == 2

Requests == 1..MaxRequests

(***************************************************************************)
(* Inputs.                                                                 *)
(***************************************************************************)
Networks == {"ethereum-mainnet", "unsupported-chain", "Ethereum-Mainnet", ""}
TxHashes == {"0xabc123", "0xdef456", ""}

(***************************************************************************)
(* Option<T> and Result<T, E>.                                             *)
(***************************************************************************)
None == <<>>
Some(x) == <<x>>
is_some(o) == Len(o) = 1
unwrap(o) == o[1]

Ok(v) == [ok |-> TRUE, val |-> <<v>>, err |-> <<>>]
Err(e) == [ok |-> FALSE, val |-> <<>>, err |-> <<e>>]

(***************************************************************************)
(* str::contains: pat occurs in s as a contiguous, case-sensitive          *)
(* substring.                                                              *)
(***************************************************************************)
contains(s, pat) ==
    \E i \in 1..(Len(s) - Len(pat) + 1) : SubSeq(s, i, i + Len(pat) - 1) = pat

(***************************************************************************)
(* serde_json::Value.                                                      *)
(***************************************************************************)
JNull == [t |-> "null"]
JString(s) == [t |-> "string", s |-> s]
JNumber(n) == [t |-> "number", n |-> n]
JArray(a) == [t |-> "array", a |-> a]
JObject(o) == [t |-> "object", o |-> o]

\* value[key]: Null unless value is an object that has the key
index(value, key) ==
    IF value.t = "object" /\ key \in DOMAIN value.o THEN value.o[key] ELSE JNull

\* value.as_array().unwrap_or(&vec![])
as_array_or_empty(value) == IF value.t = "array" THEN value.a ELSE <<>>

\* value.as_str().unwrap_or("")
as_str_or_empty(value) == IF value.t = "string" THEN value.s ELSE ""


(***************************************************************************)
(* blockchain.rs: BlockchainError and its Display (thiserror).             *)
(***************************************************************************)
UnsupportedNetwork(s) == [kind |-> "UnsupportedNetwork", arg |-> s]
RpcError(s) == [kind |-> "RpcError", arg |-> s]

display_BlockchainError(e) ==
    IF e.kind = "UnsupportedNetwork"
    THEN "Unsupported network: " \o e.arg
    ELSE "RPC error: " \o e.arg

(***************************************************************************)
(* blockchain.rs: the mocked transaction record.                           *)
(***************************************************************************)
mock(tx_hash) ==
    JObject([
        hash |-> JString(tx_hash),
        from |-> JString("0x1234...abcd"),
        to |-> JString("0xabcd...1234"),
        value |-> JString("1.5 ETH"),
        gas_used |-> JNumber(21000),
        status |-> JString("success"),
        logs |-> JArray(<<
            JObject([
                address |-> JString("0xUniswapV3Pool..."),
                topics |-> JArray(<<JString("Swap"), JString("...")>>),
                data |-> JString("...")
            ])
        >>)
    ])

\* Mutant: the error carries the transaction hash instead of the network.
fetch_transaction_wrong_arg(network, tx_hash) ==
    IF network # "ethereum-mainnet"
    THEN Err(UnsupportedNetwork(tx_hash))
    ELSE Ok(mock(tx_hash))

\* Mutant: the mocked record carries a fixed hash.
fetch_transaction_fixed_hash(network, tx_hash) ==
    IF network # "ethereum-mainnet"
    THEN Err(UnsupportedNetwork(network))
    ELSE Ok(mock("0xabc123"))

(***************************************************************************)
(* blockchain.rs: fetch_transaction.                                       *)
(***************************************************************************)
fetch_transaction(network, tx_hash) ==
    IF network # "ethereum-mainnet"
    THEN Err(UnsupportedNetwork(network))
    ELSE Ok(mock(tx_hash))

(***************************************************************************)
(* ai.rs: AiError and its Display (thiserror).                             *)
(***************************************************************************)
LlmCallFailed(s) == [kind |-> "LlmCallFailed", arg |-> s]

display_AiError(e) == "LLM call failed: " \o e.arg

(***************************************************************************)
(* ai.rs: the classification heuristic.                                    *)
(***************************************************************************)
\* |log| log["address"].as_str().unwrap_or("").contains("Uniswap")
log_is_uniswap(log) == contains(as_str_or_empty(index(log, "address")), "Uniswap")

\* Iterator::any from position i on: stops at the first log that matches
RECURSIVE any_from(_, _)
any_from(logs, i) ==
    IF i > Len(logs) THEN FALSE
    ELSE IF log_is_uniswap(logs[i]) THEN TRUE
    ELSE any_from(logs, i + 1)

\* Mutant: only the first log entry is inspected.
any_log_is_uniswap_first_only(logs) ==
    Len(logs) > 0 /\ log_is_uniswap(logs[1])

\* logs.iter().any(...)
any_log_is_uniswap(logs) == any_from(logs, 1)

tx_type_of(details) ==
    IF any_log_is_uniswap(as_array_or_empty(index(details, "logs")))
    THEN "DEX_SWAP"
    ELSE "TRANSFER"

protocol_of(tx_type) ==
    IF tx_type = "DEX_SWAP"
    THEN Some("Uniswap (detected heuristically)")
    ELSE None

(***************************************************************************)
(* ai.rs: the placeholder risk score 0.2, as a fraction, and its reasons.  *)
(***************************************************************************)
risk_score == [num |-> 2, den |-> 10]

\* Mutant: no reason is given.
risk_reasons_empty == <<>>

risk_reasons == <<"Heuristic analysis only; no AI risk model yet">>

natural_language_explanation(network, tx_hash) ==
    "This is a placeholder analysis for transaction " \o tx_hash \o " on "
    \o network
    \o ".\nIn the next version, an AI model will interpret on-chain data, "
    \o "classify the transaction type, and assess risk using LLM reasoning."

AnalyzeTxResponse(network, tx_hash, tx_type) ==
    [tx_hash |-> tx_hash,
     network |-> network,
     tx_type |-> tx_type,
     protocol |-> protocol_of(tx_type),
     risk_score |-> risk_score,
     risk_reasons |-> risk_reasons,
     natural_language_explanation |-> natural_language_explanation(network, tx_hash)]

\* Mutant: a record without a log sequence is rejected instead of defaulted.
analyze_transaction_strict(network, tx_hash, details) ==
    IF index(details, "logs").t # "array"
    THEN Err(LlmCallFailed("malformed transaction record"))
    ELSE Ok(AnalyzeTxResponse(network, tx_hash, tx_type_of(details)))

(***************************************************************************)
(* ai.rs: analyze_transaction.                                             *)
(***************************************************************************)
analyze_transaction(network, tx_hash, details) ==
    Ok(AnalyzeTxResponse(network, tx_hash, tx_type_of(details)))

(***************************************************************************)
(* routes.rs: analyze_tx.  The two map_err closures, the status of a       *)
(* response, and the handler as one sequential pass.                       *)
(***************************************************************************)
OK == 200
BAD_REQUEST == 400
INTERNAL_SERVER_ERROR == 500

fetch_map_err(e) ==
    [status |-> BAD_REQUEST,
     message |-> "Failed to fetch tx details: " \o display_BlockchainError(e)]

ai_map_err(e) ==
    [status |-> INTERNAL_SERVER_ERROR,
     message |-> "AI analysis failed: " \o display_AiError(e)]

status_of(resp) == IF resp.ok THEN OK ELSE unwrap(resp.err).status

\* What the handler returns after the fetch, when the fetch failed
after_fetch_err(fetched) == Err(fetch_map_err(unwrap(fetched.err)))

\* What the handler returns after the analysis
after_analysis(analysis) ==
    IF analysis.ok
    THEN Ok(unwrap(analysis.val))
    ELSE Err(ai_map_err(unwrap(analysis.err)))

\* analyze_tx run alone, start to end
analyze_tx(p) ==
    LET fetched == fetch_transaction(p.network, p.tx_hash)
    IN  IF ~fetched.ok
        THEN after_fetch_err(fetched)
        ELSE after_analysis(
                 analyze_transaction(p.network, p.tx_hash, unwrap(fetched.val)))

(***************************************************************************)
(* The server: each request runs analyze_tx; the futures of different      *)
(* requests interleave at the await points of the handler.                 *)
(***************************************************************************)
InitServer ==
    /\ pc = [r \in Requests |-> "idle"]
    /\ payload = [r \in Requests |-> None]
    /\ fetch_result = [r \in Requests |-> None]
    /\ tx_details = [r \in Requests |-> None]
    /\ analyzer_calls = [r \in Requests |-> 0]
    /\ response = [r \in Requests |-> None]

\* POST /analyze_tx arrives; the Json extractor yields the payload
Receive(r) ==
    /\ pc[r] = "idle"
    /\ \E network \in Networks, tx_hash \in TxHashes :
           payload' = [payload EXCEPT
                           ![r] = Some([network |-> network, tx_hash |-> tx_hash])]
    /\ pc' = [pc EXCEPT ![r] = "received"]
    /\ UNCHANGED <<fetch_result, tx_details, analyzer_calls, response>>
    /\ UNCHANGED analyze_vars

\* Mutant: a failed fetch is defaulted to Null and the handler goes on.
FetchStep_ignores_error(r) ==
    /\ pc[r] = "received"
    /\ LET p == unwrap(payload[r])
           fetched == fetch_transaction(p.network, p.tx_hash)
       IN  /\ fetch_result' = [fetch_result EXCEPT ![r] = Some(fetched)]
           /\ tx_details' = [tx_details EXCEPT
                  ![r] = IF fetched.ok THEN Some(unwrap(fetched.val)) ELSE Some(JNull)]
           /\ pc' = [pc EXCEPT ![r] = "fetched"]
           /\ UNCHANGED response
    /\ UNCHANGED <<payload, analyzer_calls>>
    /\ UNCHANGED analyze_vars

\* step 1 of analyze_tx: fetch_transaction(..).await.map_err(..)?
FetchStep(r) ==
    /\ pc[r] = "received"
    /\ LET p == unwrap(payload[r])
           fetched == fetch_transaction(p.network, p.tx_hash)
       IN  /\ fetch_result' = [fetch_result EXCEPT ![r] = Some(fetched)]
           /\ IF fetched.ok
              THEN /\ tx_details' = [tx_details EXCEPT ![r] = Some(unwrap(fetched.val))]
                   /\ pc' = [pc EXCEPT ![r] = "fetched"]
                   /\ UNCHANGED response
              ELSE /\ response' = [response EXCEPT ![r] = Some(after_fetch_err(fetched))]
                   /\ pc' = [pc EXCEPT ![r] = "responded"]
                   /\ UNCHANGED tx_details
    /\ UNCHANGED <<payload, analyzer_calls>>
    /\ UNCHANGED analyze_vars

\* Mutant: the fetched record is kept in one slot shared by all requests, so
\* the analysis may read the payload and record of another in-flight request.
AnalyzeStep_shared(r) ==
    /\ pc[r] = "fetched"
    /\ \E other \in Requests :
           /\ pc[other] = "fetched"
           /\ LET p == unwrap(payload[other])
                  analysis == analyze_transaction(p.network, p.tx_hash,
                                                  unwrap(tx_details[other]))
              IN  response' = [response EXCEPT ![r] = Some(after_analysis(analysis))]
    /\ analyzer_calls' = [analyzer_calls EXCEPT ![r] = @ + 1]
    /\ pc' = [pc EXCEPT ![r] = "responded"]
    /\ UNCHANGED <<payload, fetch_result, tx_details>>
    /\ UNCHANGED analyze_vars

\* step 2 of analyze_tx: analyze_transaction(..).await.map_err(..)?, Ok(Json(..))
AnalyzeStep(r) ==
    /\ pc[r] = "fetched"
    /\ LET p == unwrap(payload[r])
           analysis == analyze_transaction(p.network, p.tx_hash, unwrap(tx_details[r]))
       IN  response' = [response EXCEPT ![r] = Some(after_analysis(analysis))]
    /\ analyzer_calls' = [analyzer_calls EXCEPT ![r] = @ + 1]
    /\ pc' = [pc EXCEPT ![r] = "responded"]
    /\ UNCHANGED <<payload, fetch_result, tx_details>>
    /\ UNCHANGED analyze_vars

(***************************************************************************)
(* analyze_transaction as a pure function: a caller draws the arguments    *)
(* and calls it, again and again.  The record is drawn from the JSON       *)
(* values below: a log sequence of up to MaxLogs entries, each of one of   *)
(* the kinds of LogKinds, or a record whose "logs" is no sequence.         *)
(***************************************************************************)
AnalyzerNetworks == {"ethereum-mainnet", "polygon-mainnet"}
AnalyzerTxHashes == {"0xabc123", "0xdef456"}

LogKinds == <<
    \* the log of the mocked record
    JObject([address |-> JString("0xUniswapV3Pool..."),
             topics |-> JArray(<<JString("Swap"), JString("...")>>),
             data |-> JString("...")]),
    \* the signature in another case
    JObject([address |-> JString("0xuniswapv3pool..."),
             topics |-> JArray(<<JString("Swap")>>),
             data |-> JString("...")]),
    \* no address
    JObject([topics |-> JArray(<<JString("Uniswap")>>), data |-> JString("Uniswap")]),
    \* an address that is no string
    JObject([address |-> JNumber(42), data |-> JString("...")]),
    \* a log that is no object
    JString("0xUniswapV3Pool...")
>>

NoLogSequence == <<
    JNull,
    JObject([hash |-> JString("0xabc123"), status |-> JString("success")]),
    JObject([hash |-> JString("0xabc123"), logs |-> JNull]),
    JObject([hash |-> JString("0xabc123"), logs |-> JString("0xUniswapV3Pool...")]),
    JObject([hash |-> JString("0xabc123"),
             logs |-> JObject([address |-> JString("0xUniswapV3Pool...")])])
>>

record_with_logs(tx_hash, logs) ==
    JObject([hash |-> JString(tx_hash),
             status |-> JString("success"),
             logs |-> JArray(logs)])

\* in is one of the argument triples a call is made with
AnalyzerInput(in) ==
    \E network \in AnalyzerNetworks, tx_hash \in AnalyzerTxHashes :
        \/ \E n \in 0..MaxLogs : \E kinds \in [1..n -> 1..Len(LogKinds)] :
               in = [network |-> network, tx_hash |-> tx_hash,
                     details |-> record_with_logs(
                                     tx_hash, [i \in 1..n |-> LogKinds[kinds[i]]])]
        \/ \E j \in 1..Len(NoLogSequence) :
               in = [network |-> network, tx_hash |-> tx_hash,
                     details |-> NoLogSequence[j]]

InitAnalyze ==
    /\ a_pc = "ready"
    /\ AnalyzerInput(a_in)
    /\ a_out = None
    /\ a_prev = None

AnalyzeCall ==
    /\ a_pc = "ready"
    /\ a_out' = Some(analyze_transaction(a_in.network, a_in.tx_hash, a_in.details))
    /\ a_pc' = "done"
    /\ UNCHANGED <<a_in, a_prev>>
    /\ UNCHANGED server_vars

\* the result is kept for comparison and the next arguments are drawn
AnalyzeNext ==
    /\ a_pc = "done"
    /\ a_prev' = IF unwrap(a_out).ok
                 THEN LET result == unwrap(unwrap(a_out).val)
                      IN  Some([network |-> a_in.network,
                                tx_hash |-> a_in.tx_hash,
                                tx_type |-> result.tx_type,
                                natural_language_explanation |->
                                    result.natural_language_explanation])
                 ELSE a_prev
    /\ AnalyzerInput(a_in')
    /\ a_out' = None
    /\ a_pc' = "ready"
    /\ UNCHANGED server_vars

(***************************************************************************)
(* The specifications.  The part of the state a specification does not     *)
(* use stays at rest.                                                      *)
(***************************************************************************)
ServerAtRest ==
    /\ pc = [r \in Requests |-> "idle"]
    /\ payload = [r \in Requests |-> None]
    /\ fetch_result = [r \in Requests |-> None]
    /\ tx_details = [r \in Requests |-> None]
    /\ analyzer_calls = [r \in Requests |-> 0]
    /\ response = [r \in Requests |-> None]

AnalyzeAtRest ==
    /\ a_pc = "off"
    /\ a_in = None
    /\ a_out = None
    /\ a_prev = None

Init == InitServer /\ AnalyzeAtRest

Next ==
    \/ \E r \in Requests : Receive(r)
    \/ \E r \in Requests : FetchStep(r)
    \/ \E r \in Requests : AnalyzeStep(r)

Spec == Init /\ [][Next]_vars

InitA == ServerAtRest /\ InitAnalyze

NextA == AnalyzeCall \/ AnalyzeNext

SpecAnalyze == InitA /\ [][NextA]_vars

(***************************************************************************)
(* Vocabulary of the properties.                                           *)
(***************************************************************************)
\* the networks fetch_transaction accepts
SupportedNetworks == {"ethereum-mainnet"}

client_fault(status) == status \in 400..499

\* the fetch of request r has returned
fetch_returned(r) == is_some(fetch_result[r])
fetch_failed(r) == fetch_returned(r) /\ ~unwrap(fetch_result[r]).ok
fetch_succeeded(r) == fetch_returned(r) /\ unwrap(fetch_result[r]).ok

\* the call of SpecAnalyze has returned Ok
analysis_returned == a_pc = "done" /\ is_some(a_out) /\ unwrap(a_out).ok
analysis_result == unwrap(unwrap(a_out).val)

\* the log sequence of a record, empty when it has none
has_log_sequence(details) ==
    details.t = "object" /\ "logs" \in DOMAIN details.o /\ details.o.logs.t = "array"
log_sequence(details) == IF has_log_sequence(details) THEN details.o.logs.a ELSE <<>>

\* a log entry that carries an emitting address
well_formed_log(log) ==
    log.t = "object" /\ "address" \in DOMAIN log.o /\ log.o.address.t = "string"

\* a log entry whose emitting address contains the exchange's signature
signature_log(log) == well_formed_log(log) /\ contains(log.o.address.s, "Uniswap")

(***************************************************************************)
(* C1: the Analyzer is invoked for a request only after the fetch of that  *)
(* request has completed successfully; when the fetch fails (as it does    *)
(* for every unsupported network) the request ends with an error response  *)
(* and the Analyzer is never invoked for it.                               *)
(***************************************************************************)
C1_AnalyzerOnlyAfterFetch ==
    \A r \in Requests :
        /\ pc[r] = "fetched" => fetch_succeeded(r)
        /\ analyzer_calls[r] > 0 => fetch_succeeded(r)
        /\ fetch_failed(r) =>
               /\ pc[r] = "responded"
               /\ is_some(response[r]) /\ ~unwrap(response[r]).ok
               /\ analyzer_calls[r] = 0
        /\ (fetch_returned(r) /\ unwrap(payload[r]).network \notin SupportedNetworks)
               => fetch_failed(r)

\* one request failed its fetch and was answered, another was analyzed
C1_Witness ==
    \E r1, r2 \in Requests :
        /\ fetch_failed(r1) /\ pc[r1] = "responded"
        /\ fetch_succeeded(r2) /\ analyzer_calls[r2] = 1

(***************************************************************************)
(* C3: for a network outside the supported set the fetch fails with        *)
(* UnsupportedNetwork carrying exactly the supplied network name, never a  *)
(* record and never another error kind, and the caller sees a client-fault *)
(* error whose message contains that name.                                 *)
(***************************************************************************)
C3_UnsupportedNetwork ==
    \A r \in Requests :
        (fetch_returned(r) /\ unwrap(payload[r]).network \notin SupportedNetworks) =>
            LET fetched == unwrap(fetch_result[r])
                network == unwrap(payload[r]).network
            IN  /\ ~fetched.ok /\ fetched.val = None
                /\ unwrap(fetched.err).kind = "UnsupportedNetwork"
                /\ unwrap(fetched.err).arg = network
                /\ is_some(response[r]) /\ ~unwrap(response[r]).ok
                /\ client_fault(status_of(unwrap(response[r])))
                /\ contains(unwrap(unwrap(response[r]).err).message, network)

\* a request for "unsupported-chain" has been answered
C3_Witness ==
    \E r \in Requests :
        /\ pc[r] = "responded"
        /\ unwrap(payload[r]).network = "unsupported-chain"
        /\ unwrap(payload[r]).tx_hash = "0xabc123"

(***************************************************************************)
(* C4: every result of analyze has a risk_score in [0.0, 1.0] and at least *)
(* one reason, none of them empty, whatever the record (also for an empty  *)
(* or missing log sequence).                                               *)
(***************************************************************************)
C4_ScoreAndReasons ==
    analysis_returned =>
        /\ analysis_result.risk_score.den > 0
        /\ 0 <= analysis_result.risk_score.num
        /\ analysis_result.risk_score.num <= analysis_result.risk_score.den
        /\ Len(analysis_result.risk_reasons) >= 1
        /\ \A i \in 1..Len(analysis_result.risk_reasons) :
               Len(analysis_result.risk_reasons[i]) > 0

\* a record without a log sequence has been analyzed
C4_Witness ==
    /\ analysis_returned
    /\ ~has_log_sequence(a_in.details)

(***************************************************************************)
(* C5: analyze returns DEX_SWAP with a protocol exactly when some log      *)
(* entry, at any position, has an emitting address that contains the       *)
(* signature "Uniswap" (case-sensitive); otherwise, also for an empty log  *)
(* sequence, TRANSFER without a protocol.  tx_type is never empty and the  *)
(* protocol is set exactly when tx_type is DEX_SWAP.                       *)
(***************************************************************************)
C5_Classification ==
    analysis_returned =>
        LET logs == log_sequence(a_in.details)
            detected == \E i \in 1..Len(logs) : signature_log(logs[i])
        IN  /\ detected =>
                   /\ analysis_result.tx_type = "DEX_SWAP"
                   /\ is_some(analysis_result.protocol)
            /\ ~detected =>
                   /\ analysis_result.tx_type = "TRANSFER"
                   /\ analysis_result.protocol = None
            /\ analysis_result.tx_type # ""
            /\ is_some(analysis_result.protocol) <=> analysis_result.tx_type = "DEX_SWAP"

\* the signature is found in the last of several logs, after one that
\* carries it in another case
C5_Witness ==
    /\ analysis_returned
    /\ LET logs == log_sequence(a_in.details)
       IN  /\ Len(logs) = 2
           /\ well_formed_log(logs[1]) /\ ~signature_log(logs[1])
           /\ signature_log(logs[2])
    /\ analysis_result.tx_type = "DEX_SWAP"

(***************************************************************************)
(* C6: for a supported network the fetch succeeds and the record it        *)
(* returns has the supplied tx_hash as its hash.                           *)
(***************************************************************************)
C6_FetchEchoesHash ==
    \A r \in Requests :
        (fetch_returned(r) /\ unwrap(payload[r]).network \in SupportedNetworks) =>
            LET fetched == unwrap(fetch_result[r])
            IN  /\ fetched.ok
                /\ index(unwrap(fetched.val), "hash").t = "string"
                /\ index(unwrap(fetched.val), "hash").s = unwrap(payload[r]).tx_hash

\* a fetch on the supported network, for a hash other than the first
C6_Witness ==
    \E r \in Requests :
        /\ fetch_succeeded(r)
        /\ unwrap(payload[r]).tx_hash = "0xdef456"

(***************************************************************************)
(* C8: under every interleaving of the steps of the in-flight requests,    *)
(* the record a request holds after its fetch and the outcome it is        *)
(* answered with are those of the same request run alone.                  *)
(***************************************************************************)
C8_RequestsIndependent ==
    \A r \in Requests :
        /\ pc[r] = "fetched" =>
               LET p == unwrap(payload[r])
                   alone == fetch_transaction(p.network, p.tx_hash)
               IN  alone.ok /\ tx_details[r] = alone.val
        /\ pc[r] = "responded" =>
               LET alone == analyze_tx(unwrap(payload[r]))
                   got == unwrap(response[r])
               IN  /\ got.ok = alone.ok
                   /\ got.val = alone.val
                   /\ got.err = alone.err

\* two requests with different payloads are in flight together: one is
\* answered with an analysis while the other still holds its fetched record
C8_Witness ==
    \E r1, r2 \in Requests :
        /\ pc[r1] = "responded" /\ unwrap(response[r1]).ok
        /\ pc[r2] = "fetched"
        /\ unwrap(payload[r1]).tx_hash # unwrap(payload[r2]).tx_hash

(***************************************************************************)
(* C9: every result of analyze echoes the supplied tx_hash and network,    *)
(* and its explanation mentions both and summarizes the classification     *)
(* decision: two transactions with the same hash and network that are      *)
(* classified differently do not get the same explanation.                 *)
(***************************************************************************)
C9_ExplanationSummarizes ==
    analysis_returned =>
        /\ analysis_result.tx_hash = a_in.tx_hash
        /\ analysis_result.network = a_in.network
        /\ contains(analysis_result.natural_language_explanation, a_in.tx_hash)
        /\ contains(analysis_result.natural_language_explanation, a_in.network)
        /\ (/\ is_some(a_prev)
            /\ unwrap(a_prev).tx_hash = a_in.tx_hash
            /\ unwrap(a_prev).network = a_in.network
            /\ unwrap(a_prev).tx_type # analysis_result.tx_type)
               => unwrap(a_prev).natural_language_explanation
                      # analysis_result.natural_language_explanation

(***************************************************************************)
(* C10: analyze_transaction never returns an error.  A record whose logs   *)
(* are missing or no sequence is a TRANSFER without protocol; a log that   *)
(* is no object, or whose address is missing or no string, contributes no  *)
(* match: the classification is that of the well-formed logs alone.  The   *)
(* result is fully populated.                                              *)
(***************************************************************************)
C10_MalformedTolerated ==
    a_pc = "done" =>
        /\ is_some(a_out) /\ unwrap(a_out).ok
        /\ LET clean == SelectSeq(log_sequence(a_in.details), well_formed_log)
               expected == IF \E i \in 1..Len(clean) : signature_log(clean[i])
                           THEN "DEX_SWAP" ELSE "TRANSFER"
           IN  /\ analysis_result.tx_type = expected
               /\ ~has_log_sequence(a_in.details) =>
                      /\ analysis_result.tx_type = "TRANSFER"
                      /\ analysis_result.protocol = None
        /\ analysis_result.tx_hash = a_in.tx_hash
        /\ analysis_result.network = a_in.network
        /\ Len(analysis_result.risk_reasons) > 0
        /\ Len(analysis_result.natural_language_explanation) > 0

\* the only log is a bare string that holds the signature: no match
C10_Witness ==
    /\ a_pc = "done"
    /\ has_log_sequence(a_in.details)
    /\ Len(log_sequence(a_in.details)) = 1
    /\ log_sequence(a_in.details)[1].t = "string"
    /\ contains(log_sequence(a_in.details)[1].s, "Uniswap")
    /\ is_some(a_out) /\ unwrap(a_out).ok
    /\ analysis_result.tx_type = "TRANSFER"

=============================================================================
